---------------------------- MODULE Spec2Model ----------------------------
(***************************************************************************)
(* Model of the climate / agriculture / impact pipeline of                 *)
(* Counterfactual-Africa-CMIP6 (src/src/climate_processor.py,              *)
(* src/src/scenario_generator.py, src/src/impact_assessor.py, src/app.py). *)
(*                                                                         *)
(* Numbers.  The code computes in binary floating point; the model uses    *)
(* fixed point integers, each quantity in a fixed unit:                    *)
(*   temperature, temp_anomaly, temp_change   1/1000 degC                  *)
(*   precipitation, precip_change             1/100 mm                     *)
(*   precip_anomaly, yield_impact_pct         1/100 percent                *)
(*   yield, yield_impact                      1/1000 t/ha                  *)
(*   forcing                                  1/10 W/m2                    *)
(* A product or quotient is truncated (floor) to the unit of its result,   *)
(* which stands for the rounding of the floating point operation.  NaN is  *)
(* the value NaN below; every operation that can meet it tests for it.     *)
(*                                                                         *)
(* Data frames are sequences of records (rows).                            *)
(***************************************************************************)
EXTENDS Integers, Sequences, FiniteSets, TLC

VARIABLES
    rng,            \* numpy's process-wide generator: [key, pos]
    stream,         \* the standard normal variates the generator has produced
                    \* so far, by <<key, pos>>; fixed once produced
    pc,             \* per session: position inside load_cmip6_data
    frame,          \* per session: locals of the running load_cmip6_data
    returned,       \* per SSP: the first result generateClimate returned, if any
    out,            \* the latest call of the climate/agriculture API: its arguments,
                    \* how it ended ("ok" or the error raised) and its result
    scenarios_df,   \* input of ImpactAssessor.calculate_impacts
    impacts,        \* outcome of calculate_impacts / input of assess_vulnerability
    vulnerability   \* outcome of assess_vulnerability

vars == <<rng, stream, pc, frame, returned, out,
          scenarios_df, impacts, vulnerability>>

-----------------------------------------------------------------------------
(* Bounds of the model *)

\* number of years of the generated range that the model keeps
NumYears == 2
\* distance between two kept years (the code's range is contiguous, 2020..2100)
YearStep == 80
\* sessions of the application running load_cmip6_data at the same time
NumSessions == 2
\* rows of a hand-made scenarios_df
MaxRows == 3
\* rows of a hand-made impacts_df
MaxImpactRows == 2

\* standard normal variates the generator may produce (the support of the
\* normal distribution is unbounded: -13 takes precipitation below its floor)
ZVals == {-13, 1}

\* NaN: an integer no computation of the model produces
NaN == -2147483647

-----------------------------------------------------------------------------
(* Helpers on sequences *)

RECURSIVE SumSeq(_)
SumSeq(s) == IF s = <<>> THEN 0 ELSE Head(s) + SumSeq(Tail(s))

RECURSIVE Concat(_)
Concat(frames) == IF frames = <<>> THEN <<>> ELSE Head(frames) \o Concat(Tail(frames))

Column(df, c) == [i \in 1..Len(df) |-> df[i][c]]

Abs(x) == IF x < 0 THEN -x ELSE x
Max(a, b) == IF a >= b THEN a ELSE b
Min(a, b) == IF a <= b THEN a ELSE b

\* r extended by the fields of e
Extend(r, e) ==
    [f \in DOMAIN r \cup DOMAIN e |-> IF f \in DOMAIN e THEN e[f] ELSE r[f]]

-----------------------------------------------------------------------------
(* ClimateDataProcessor *)

SSPs == {"SSP1-2.6", "SSP2-4.5", "SSP3-7.0", "SSP5-8.5"}

ssp_definitions ==
    [s \in SSPs |-> [forcing |-> CASE s = "SSP1-2.6" -> 26
                                   [] s = "SSP2-4.5" -> 45
                                   [] s = "SSP3-7.0" -> 70
                                   [] s = "SSP5-8.5" -> 85]]

FirstYear == 2020

\* years = np.arange(2020, 2101), kept every YearStep years
years == [i \in 1..NumYears |-> FirstYear + YearStep * (i - 1)]

warming_rates ==
    [s \in SSPs |-> CASE s = "SSP1-2.6" -> 10
                      [] s = "SSP2-4.5" -> 20
                      [] s = "SSP3-7.0" -> 30
                      [] s = "SSP5-8.5" -> 40]

precip_trends ==
    [s \in SSPs |-> CASE s = "SSP1-2.6" -> -50
                      [] s = "SSP2-4.5" -> -100
                      [] s = "SSP3-7.0" -> -200
                      [] s = "SSP5-8.5" -> -300]

base_temp == 25000
base_precip == 80000
min_precip == 20000
temp_sd == 500
precip_sd == 5000

(* numpy's global generator.  Its state is the stream it is in (key) and how *)
(* many variates it has handed out (pos).  What a stream holds at a position *)
(* is not known before it is drawn, and never changes afterwards.            *)
EntropyState == [key |-> "entropy", pos |-> 0]

\* np.random.seed(42) without effect
SeedSkipped(r) == r

\* np.random.seed(42)
Seed(r) == [key |-> "seed42", pos |-> 0]

\* the stream positions the next n variates come from
Slots(r, n) == {<<r.key, r.pos + i - 1>> : i \in 1..n}

\* the draws are capped: no run of the model draws beyond this position
MaxPos == 2 * NumSessions * NumYears

\* every way to fix the still unknown positions among K
Extensions(st, K) ==
    IF \E q \in K : q[2] >= MaxPos THEN {}
    ELSE { [q \in DOMAIN st \cup K |-> IF q \in DOMAIN st THEN st[q] ELSE e[q]] :
             e \in [K \ DOMAIN st -> ZVals] }

\* np.random.normal(0, sd, n) on generator state r, the stream being st
Normal(st, r, sd, n) == [i \in 1..n |-> sd * st[<<r.key, r.pos + i - 1>>]]

Advance(r, n) == [r EXCEPT !.pos = @ + n]

\* temperatures = base_temp + warming_rates[ssp] * (years - 2020)
TemperatureTrend(ssp) ==
    [i \in 1..NumYears |-> base_temp + warming_rates[ssp] * (years[i] - FirstYear)]

\* temperatures += noise
AddNoise(temperatures, noise) ==
    [i \in 1..NumYears |-> temperatures[i] + noise[i]]

\* precipitation without the floor of 200 mm
PrecipitationNoFloor(ssp, precip_noise) ==
    [i \in 1..NumYears |->
        base_precip + precip_trends[ssp] * (years[i] - FirstYear) + precip_noise[i]]

\* precipitation = np.maximum(200, base + trend * (years - 2020) + precip_noise)
Precipitation(ssp, precip_noise) ==
    [i \in 1..NumYears |->
        Max(min_precip,
            base_precip + precip_trends[ssp] * (years[i] - FirstYear) + precip_noise[i])]

\* pd.DataFrame({...}) returned by load_cmip6_data
ClimateFrame(ssp, temperatures, precipitation) ==
    [i \in 1..NumYears |->
        [year |-> years[i], temperature |-> temperatures[i],
         precipitation |-> precipitation[i], scenario |-> ssp,
         forcing |-> ssp_definitions[ssp].forcing]]

(* load_cmip6_data run without interruption from generator state r0 and    *)
(* stream st0: the set of its outcomes [rng, stream, df].                  *)
LoadCmip6Data(ssp, r0, st0) ==
    LET r1 == Seed(r0)
        r2 == Advance(r1, NumYears)
        r3 == Advance(r2, NumYears)
    IN UNION {
         { [rng |-> r3, stream |-> stB,
            df |-> ClimateFrame(ssp,
                     AddNoise(TemperatureTrend(ssp), Normal(stA, r1, temp_sd, NumYears)),
                     Precipitation(ssp, Normal(stB, r2, precip_sd, NumYears)))] :
             stB \in Extensions(stA, Slots(r2, NumYears)) } :
         stA \in Extensions(st0, Slots(r1, NumYears)) }

\* mean of a column: NaN when the column is empty
Mean(vals) == IF Len(vals) = 0 THEN NaN ELSE SumSeq(vals) \div Len(vals)

DefaultBaselinePeriod == <<1991, 2020>>

\* calculate_climate_anomalies(scenario_data, baseline_period)
CalculateClimateAnomalies(scenario_data, baseline_period) ==
    LET InBaseline(r) == r.year >= baseline_period[1] /\ r.year <= baseline_period[2]
        base == SelectSeq(scenario_data, InBaseline)
        baseline_temp == Mean(Column(base, "temperature"))
        baseline_precip == Mean(Column(base, "precipitation"))
    IN [i \in 1..Len(scenario_data) |->
          Extend(scenario_data[i],
            [temp_anomaly |->
                IF baseline_temp = NaN THEN NaN
                ELSE scenario_data[i].temperature - baseline_temp,
             precip_anomaly |->
                IF baseline_precip = NaN THEN NaN
                ELSE ((scenario_data[i].precipitation - baseline_precip) * 10000)
                       \div baseline_precip])]

-----------------------------------------------------------------------------
(* ScenarioGenerator *)

regions == <<"West Africa", "East Africa", "Southern Africa", "Central Africa">>

\* tech_growth of _get_agricultural_assumptions, in 1/1000 per year
tech_growth ==
    [s \in SSPs |-> CASE s = "SSP1-2.6" -> 20
                      [] s = "SSP2-4.5" -> 15
                      [] s = "SSP3-7.0" -> 8
                      [] s = "SSP5-8.5" -> 25]

\* region_modifiers, in tenths
region_modifiers ==
    [g \in {regions[i] : i \in 1..Len(regions)} |->
        CASE g = "West Africa"     -> [temp_modifier |-> 10, precip_modifier |-> 9]
          [] g = "East Africa"     -> [temp_modifier |-> 8,  precip_modifier |-> 7]
          [] g = "Southern Africa" -> [temp_modifier |-> 12, precip_modifier |-> 6]
          [] g = "Central Africa"  -> [temp_modifier |-> 9,  precip_modifier |-> 11]]

base_yield == 2500
min_yield == 500
max_yield == 6000
opt_temp == 25000
hot_temp == 30000
precip_lo == 40000
precip_hi == 80000
precip_mid == 60000

\* temp_effect, in 1/10000: 1 - 0.05 (T - 25)^2 [- 0.1 (T - 30) above 30 degC]
TempEffect(T) ==
    LET parabola == 20000000 - (T - opt_temp) * (T - opt_temp)
    IN IF T <= hot_temp THEN parabola \div 2000
       ELSE (parabola - 2000 * (T - hot_temp)) \div 2000

\* precip_effect, in 1/10000: 1 inside [400, 800] mm, 1 - 0.001 |P - 600| outside
PrecipEffect(P) ==
    IF P >= precip_lo /\ P <= precip_hi THEN 10000
    ELSE (100000 - Abs(P - precip_mid)) \div 10

\* (1 + tech_growth) ** n, in 1/1000, by repeated squaring
RECURSIVE TechImprovement(_, _)
TechImprovement(g, n) ==
    IF n <= 0 THEN 1000
    ELSE LET h == TechImprovement(g, n \div 2)
             sq == (h * h) \div 1000
         IN IF n % 2 = 0 THEN sq ELSE (sq * (1000 + g)) \div 1000

\* base_yield * temp_effect * precip_effect * tech_improvement
RawYield(T, P, g, year) ==
    LET y1 == (base_yield * TempEffect(T)) \div 10000
        y2 == (y1 * PrecipEffect(P)) \div 10000
    IN (y2 * TechImprovement(g, year - FirstYear)) \div 1000

\* a clip that forgets the upper bound
ClipLowerOnly(y, lo, hi) == Max(lo, y)

\* np.clip(y, lo, hi)
Clip(y, lo, hi) == Max(lo, Min(y, hi))

\* _calculate_yield_impacts(scenario_data, ag_assumptions)
CalculateYieldImpacts(scenario_data, g) ==
    [i \in 1..Len(scenario_data) |->
        Extend(scenario_data[i],
          [yield |-> Clip(RawYield(scenario_data[i].temperature,
                                   scenario_data[i].precipitation,
                                   g, scenario_data[i].year),
                          min_yield, max_yield)])]

\* _generate_region_scenario without the copy: the modifiers of the regions
\* processed before this one are already in climate_data
RECURSIVE Compounded(_, _, _)
Compounded(x, field, k) ==
    IF k = 0 THEN x
    ELSE (Compounded(x, field, k - 1) * region_modifiers[regions[k]][field]) \div 10

GenerateRegionScenarioInPlace(climate_data, g, region, crop_type) ==
    LET k == CHOOSE n \in 1..Len(regions) : regions[n] = region
        scenario_data ==
          [i \in 1..Len(climate_data) |->
             Extend(climate_data[i],
               [region |-> region, crop_type |-> crop_type,
                temperature |->
                    Compounded(climate_data[i].temperature, "temp_modifier", k),
                precipitation |->
                    Compounded(climate_data[i].precipitation, "precip_modifier", k)])]
    IN CalculateYieldImpacts(scenario_data, g)

\* _generate_region_scenario(climate_data, ag_assumptions, region, crop_type)
\* works on a copy of climate_data
GenerateRegionScenario(climate_data, g, region, crop_type) ==
    LET mod == region_modifiers[region]
        scenario_data ==
          [i \in 1..Len(climate_data) |->
             Extend(climate_data[i],
               [region |-> region, crop_type |-> crop_type,
                temperature |-> (climate_data[i].temperature * mod.temp_modifier) \div 10,
                precipitation |->
                    (climate_data[i].precipitation * mod.precip_modifier) \div 10])]
    IN CalculateYieldImpacts(scenario_data, g)

\* the body of generate_agricultural_scenarios once load_cmip6_data returned df
AgriculturalScenarios(df, ssp_scenario, crop_type) ==
    LET climate_data == CalculateClimateAnomalies(df, DefaultBaselinePeriod)
    IN Concat([k \in 1..Len(regions) |->
                 GenerateRegionScenario(climate_data, tech_growth[ssp_scenario],
                                        regions[k], crop_type)])

-----------------------------------------------------------------------------
(* The climate and agriculture API called one call after the other, as one  *)
(* session of the application does (src/app.py tab2, tab3).                 *)

Sessions == 1..NumSessions

CropTypes == {"Maize"}

\* baseline windows a caller passes besides the default one
OtherBaselinePeriods == {<<1991, 2019>>, <<FirstYear, FirstYear + YearStep>>}

NoCall == [op |-> "none", args |-> <<>>, repeat |-> FALSE, status |-> "none",
           result |-> <<>>]

\* the first result is kept
Remember(results, df) ==
    IF results = <<>> THEN <<df>> ELSE results

ImpactIdle ==
    /\ scenarios_df = <<>>
    /\ impacts = [status |-> "none", baseline |-> "SSP2-4.5", rows |-> <<>>]
    /\ vulnerability = [status |-> "none", rows |-> <<>>]

SessionsIdle ==
    /\ pc = [s \in Sessions |-> "idle"]
    /\ frame = [s \in Sessions |-> [ssp |-> "SSP1-2.6", temperatures |-> <<>>,
                                    precipitation |-> <<>>]]

Init ==
    /\ rng = EntropyState
    /\ stream = << >>
    /\ returned = [s \in SSPs |-> <<>>]
    /\ out = NoCall
    /\ SessionsIdle
    /\ ImpactIdle

\* generateClimate: load_cmip6_data, then calculate_climate_anomalies
\* (src/app.py 127-128)
GenerateClimate(ssp) ==
    /\ \E o \in LoadCmip6Data(ssp, rng, stream) :
          LET df == CalculateClimateAnomalies(o.df, DefaultBaselinePeriod)
          IN /\ rng' = o.rng
             /\ stream' = o.stream
             /\ returned' = [returned EXCEPT ![ssp] = Remember(@, df)]
             /\ out' = [op |-> "generate_climate", args |-> <<ssp>>,
                        repeat |-> returned[ssp] # <<>>, status |-> "ok",
                        result |-> df]
    /\ UNCHANGED <<pc, frame, scenarios_df, impacts, vulnerability>>

\* withAnomalies on generated records with a baseline window of the caller
WithAnomalies(ssp, period) ==
    /\ \E o \in LoadCmip6Data(ssp, rng, stream) :
          /\ rng' = o.rng
          /\ stream' = o.stream
          /\ out' = [op |-> "calculate_climate_anomalies", args |-> <<ssp, period>>,
                     repeat |-> FALSE, status |-> "ok", result |-> CalculateClimateAnomalies(o.df, period)]
    /\ UNCHANGED <<returned, pc, frame, scenarios_df, impacts, vulnerability>>

\* generate_agricultural_scenarios(ssp_scenario, crop_type)
GenerateAgriculturalScenarios(ssp, crop) ==
    /\ \E o \in LoadCmip6Data(ssp, rng, stream) :
          /\ rng' = o.rng
          /\ stream' = o.stream
          /\ out' = [op |-> "generate_agricultural_scenarios", args |-> <<ssp, crop>>,
                     repeat |-> FALSE, status |-> "ok", result |-> AgriculturalScenarios(o.df, ssp, crop)]
    /\ UNCHANGED <<returned, pc, frame, scenarios_df, impacts, vulnerability>>

Next ==
    \/ \E ssp \in SSPs : GenerateClimate(ssp)
    \/ \E ssp \in SSPs, period \in OtherBaselinePeriods : WithAnomalies(ssp, period)
    \/ \E ssp \in SSPs, crop \in CropTypes : GenerateAgriculturalScenarios(ssp, crop)

Spec == Init /\ [][Next]_vars

-----------------------------------------------------------------------------
(* Two sessions of the application inside load_cmip6_data at the same time. *)
(* The sessions are threads of one process and share numpy's generator; a   *)
(* step is one statement that touches it.                                   *)

\* lines 38-49: the call starts and computes the trend
CallLoad(s, ssp) ==
    /\ pc[s] = "idle"
    /\ pc' = [pc EXCEPT ![s] = "seed"]
    /\ frame' = [frame EXCEPT ![s] = [ssp |-> ssp,
                                      temperatures |-> TemperatureTrend(ssp),
                                      precipitation |-> <<>>]]
    /\ UNCHANGED <<rng, stream, returned, out, scenarios_df, impacts, vulnerability>>

\* line 52: np.random.seed(42)
SeedStep(s) ==
    /\ pc[s] = "seed"
    /\ rng' = Seed(rng)
    /\ pc' = [pc EXCEPT ![s] = "noise"]
    /\ UNCHANGED <<stream, frame, returned, out, scenarios_df, impacts, vulnerability>>

\* lines 53-54: noise = np.random.normal(0, 0.5, len(years)); temperatures += noise
NoiseStep(s) ==
    /\ pc[s] = "noise"
    /\ \E st \in Extensions(stream, Slots(rng, NumYears)) :
          /\ stream' = st
          /\ frame' = [frame EXCEPT ![s].temperatures =
                          AddNoise(@, Normal(st, rng, temp_sd, NumYears))]
    /\ rng' = Advance(rng, NumYears)
    /\ pc' = [pc EXCEPT ![s] = "precip"]
    /\ UNCHANGED <<returned, out, scenarios_df, impacts, vulnerability>>

\* lines 64-67: precip_noise = np.random.normal(0, 50, len(years)) and the floor
PrecipStep(s) ==
    /\ pc[s] = "precip"
    /\ \E st \in Extensions(stream, Slots(rng, NumYears)) :
          /\ stream' = st
          /\ frame' = [frame EXCEPT ![s].precipitation =
                          Precipitation(frame[s].ssp, Normal(st, rng, precip_sd, NumYears))]
    /\ rng' = Advance(rng, NumYears)
    /\ pc' = [pc EXCEPT ![s] = "return"]
    /\ UNCHANGED <<returned, out, scenarios_df, impacts, vulnerability>>

\* the data frame session s is about to return
Returning(s) ==
    ClimateFrame(frame[s].ssp, frame[s].temperatures, frame[s].precipitation)

\* lines 69-75: the frame is handed to the caller and the locals are gone
ReturnStep(s) ==
    /\ pc[s] = "return"
    /\ pc' = [pc EXCEPT ![s] = "idle"]
    /\ frame' = [frame EXCEPT ![s] = [ssp |-> "SSP1-2.6", temperatures |-> <<>>,
                                      precipitation |-> <<>>]]
    /\ UNCHANGED <<rng, stream, returned, out, scenarios_df, impacts, vulnerability>>

NextConc ==
    \/ \E s \in Sessions, ssp \in SSPs : CallLoad(s, ssp)
    \/ \E s \in Sessions : SeedStep(s)
    \/ \E s \in Sessions : NoiseStep(s)
    \/ \E s \in Sessions : PrecipStep(s)
    \/ \E s \in Sessions : ReturnStep(s)

SpecConc == Init /\ [][NextConc]_vars

-----------------------------------------------------------------------------
(* ImpactAssessor *)

DefaultBaselineScenario == "SSP2-4.5"

\* scenarios_df['scenario'].unique(): the values in order of first appearance
RECURSIVE Unique(_)
Unique(vals) ==
    IF vals = <<>> THEN <<>>
    ELSE LET rest == Unique([i \in 1..(Len(vals) - 1) |-> vals[i]])
             last == vals[Len(vals)]
         IN IF \E i \in 1..Len(rest) : rest[i] = last THEN rest ELSE Append(rest, last)

\* a loop that never skips a scenario
NeverSkipped(ssp, baseline_scenario) == FALSE

\* if ssp == baseline_scenario: continue
Skipped(ssp, baseline_scenario) == ssp = baseline_scenario

\* a merge on the year alone
SameYear(l, r) == l.year = r.year

\* on=['year', 'region']
SameKey(l, r) == l.year = r.year /\ l.region = r.region

\* one row of the merge, with the impact columns of lines 28-32
ComparisonRow(l, r) ==
    LET yield_impact == l.yield - r.yield
    IN [scenario |-> l.scenario, year |-> l.year, region |-> l.region,
        yield_ssp |-> l.yield, temperature_ssp |-> l.temperature,
        precipitation_ssp |-> l.precipitation,
        yield_baseline |-> r.yield, temperature_baseline |-> r.temperature,
        precipitation_baseline |-> r.precipitation,
        yield_impact |-> yield_impact,
        yield_impact_pct |-> IF r.yield = 0 THEN NaN
                             ELSE (yield_impact * 10000) \div r.yield,
        temp_change |-> l.temperature - r.temperature,
        precip_change |-> l.precipitation - r.precipitation]

\* pd.merge(ssp_data, baseline_data[...], on=['year', 'region']): an inner join,
\* in the order of the left rows, each with its matches in the order of the right
Merge(ssp_data, baseline_data) ==
    Concat([i \in 1..Len(ssp_data) |->
              LET Matches(r) == SameKey(ssp_data[i], r)
                  right == SelectSeq(baseline_data, Matches)
              IN [j \in 1..Len(right) |-> ComparisonRow(ssp_data[i], right[j])]])

\* calculate_impacts(scenarios_df, baseline_scenario)
CalculateImpacts(df, baseline_scenario) ==
    LET NotSkipped(ssp) == ~Skipped(ssp, baseline_scenario)
        IsBaseline(r) == r.scenario = baseline_scenario
        todo == SelectSeq(Unique(Column(df, "scenario")), NotSkipped)
        baseline_data == SelectSeq(df, IsBaseline)
        impact_list ==
          [k \in 1..Len(todo) |->
             LET IsSsp(r) == r.scenario = todo[k]
             IN Merge(SelectSeq(df, IsSsp), baseline_data)]
    IN IF Len(impact_list) = 0
       THEN \* pd.concat([]) raises ValueError: No objects to concatenate
            [status |-> "ValueError", baseline |-> baseline_scenario, rows |-> <<>>]
       ELSE [status |-> "ok", baseline |-> baseline_scenario,
             rows |-> Concat(impact_list)]

\* the means of assess_vulnerability are kept as exact fractions num / den
MeanQ(vals) == [num |-> SumSeq(vals), den |-> Len(vals)]

bins == <<-10000, -2000, -1000, -500, 500, 10000>>
labels == <<"Extreme", "High", "Medium", "Low", "Beneficial">>
Unclassified == "NaN"

\* a cut into left-closed, right-open bins
PdCutRightOpen(q) ==
    IF \E k \in 1..Len(labels) :
          bins[k] * q.den <= q.num /\ q.num < bins[k + 1] * q.den
    THEN labels[CHOOSE k \in 1..Len(labels) :
                   bins[k] * q.den <= q.num /\ q.num < bins[k + 1] * q.den]
    ELSE Unclassified

\* pd.cut(x, bins, labels): bin k is (bins[k], bins[k+1]]; a value in no bin
\* gets no label
PdCut(q) ==
    IF \E k \in 1..Len(labels) :
          bins[k] * q.den < q.num /\ q.num <= bins[k + 1] * q.den
    THEN labels[CHOOSE k \in 1..Len(labels) :
                   bins[k] * q.den < q.num /\ q.num <= bins[k + 1] * q.den]
    ELSE Unclassified

\* the group keys in the order groupby sorts them
SortedRegions == <<"Central Africa", "East Africa", "Southern Africa", "West Africa">>
SortedScenarios == <<"SSP1-2.6", "SSP2-4.5", "SSP3-7.0", "SSP5-8.5">>

\* the rows with year in the window
PeriodData(impacts_df, time_period) ==
    LET InPeriod(r) == r.year >= time_period[1] /\ r.year <= time_period[2]
    IN SelectSeq(impacts_df, InPeriod)

\* the rows of one (region, scenario) group
Group(period_data, region, scenario) ==
    LET InGroup(r) == r.region = region /\ r.scenario = scenario
    IN SelectSeq(period_data, InGroup)

\* assess_vulnerability(impacts_df, time_period)
AssessVulnerability(impacts_df, time_period) ==
    LET period_data == PeriodData(impacts_df, time_period)
        Summary(region, scenario) ==
          LET g == Group(period_data, region, scenario)
              m == MeanQ(Column(g, "yield_impact_pct"))
          IN IF g = <<>> THEN <<>>
             ELSE << [region |-> region, scenario |-> scenario,
                      yield_impact_pct |-> m,
                      temp_change |-> MeanQ(Column(g, "temp_change")),
                      precip_change |-> MeanQ(Column(g, "precip_change")),
                      vulnerability_level |-> PdCut(m)] >>
    IN Concat([i \in 1..Len(SortedRegions) |->
                 Concat([j \in 1..Len(SortedScenarios) |->
                           Summary(SortedRegions[i], SortedScenarios[j])])])

DefaultTimePeriod == <<2040, 2060>>
AppTimePeriod == <<2050, 2070>>

-----------------------------------------------------------------------------
(* calculate_impacts, then assess_vulnerability, on hand-made scenario      *)
(* records (src/app.py 192-225).                                            *)

\* the (year, region) pairs of hand-made records
Pairs == { <<2050, "West Africa">>, <<2050, "East Africa">>, <<2070, "West Africa">> }

\* yield, temperature and precipitation of hand-made records
Profiles == { [yield |-> 500,  temperature |-> 31000, precipitation |-> 36000],
              [yield |-> 2000, temperature |-> 25500, precipitation |-> 72000] }

RecordScenarios == {"SSP1-2.6", "SSP2-4.5", "SSP5-8.5"}

ScenarioRecords ==
    { [scenario |-> sc, year |-> p[1], region |-> p[2], yield |-> f.yield,
       temperature |-> f.temperature, precipitation |-> f.precipitation] :
      sc \in RecordScenarios, p \in Pairs, f \in Profiles }

SeqsUpTo(S, n) == UNION { [1..k -> S] : k \in 0..n }

InitImpact ==
    /\ rng = EntropyState
    /\ stream = << >>
    /\ returned = [s \in SSPs |-> <<>>]
    /\ out = NoCall
    /\ SessionsIdle
    /\ scenarios_df \in SeqsUpTo(ScenarioRecords, MaxRows)
    /\ impacts = [status |-> "none", baseline |-> DefaultBaselineScenario, rows |-> <<>>]
    /\ vulnerability = [status |-> "none", rows |-> <<>>]

\* impacts_df = impact_assessor.calculate_impacts(scenarios_df, baseline)
CallCalculateImpacts(baseline_scenario) ==
    /\ impacts.status = "none"
    /\ impacts' = CalculateImpacts(scenarios_df, baseline_scenario)
    /\ UNCHANGED <<rng, stream, pc, frame, returned, out, scenarios_df, vulnerability>>

\* vulnerability = impact_assessor.assess_vulnerability(impacts_df, time_period)
CallAssessVulnerability(time_period) ==
    /\ impacts.status = "ok"
    /\ vulnerability.status = "none"
    /\ vulnerability' = [status |-> "ok", period |-> time_period,
                         rows |-> AssessVulnerability(impacts.rows, time_period)]
    /\ UNCHANGED <<rng, stream, pc, frame, returned, out, scenarios_df, impacts>>

NextImpact ==
    \/ \E b \in SSPs : CallCalculateImpacts(b)
    \/ CallAssessVulnerability(AppTimePeriod)

SpecImpact == InitImpact /\ [][NextImpact]_vars

-----------------------------------------------------------------------------
(* assess_vulnerability on hand-made impact records.                        *)

\* yield_impact_pct of hand-made impact records, in 1/100 percent
PctVals == {-15000, -10000, -2000, -1000, -500, 0, 500, 10000, 15000}

ImpactYears == {2050, 2070}
ImpactRegions == {"West Africa", "East Africa"}

ImpactRecords ==
    { [scenario |-> "SSP5-8.5", year |-> y, region |-> g, yield_impact_pct |-> v,
       temp_change |-> 1500, precip_change |-> -8000] :
      y \in ImpactYears, g \in ImpactRegions, v \in PctVals }

InitVuln ==
    /\ rng = EntropyState
    /\ stream = << >>
    /\ returned = [s \in SSPs |-> <<>>]
    /\ out = NoCall
    /\ SessionsIdle
    /\ scenarios_df = <<>>
    /\ \E rows \in SeqsUpTo(ImpactRecords, MaxImpactRows) :
          impacts = [status |-> "ok", baseline |-> DefaultBaselineScenario, rows |-> rows]
    /\ vulnerability = [status |-> "none", rows |-> <<>>]

NextVuln ==
    \E time_period \in {DefaultTimePeriod, AppTimePeriod} :
        CallAssessVulnerability(time_period)

SpecVuln == InitVuln /\ [][NextVuln]_vars

-----------------------------------------------------------------------------
(* Claims *)

\* C1: generateClimate (load_cmip6_data followed by calculate_climate_anomalies)
\* returns, for every SSP, the same records whenever it is called again with
\* the same arguments, whatever calls ran before it or between the two calls.
C1_Deterministic ==
    (out.op = "generate_climate" /\ out.repeat)
        => out.result = returned[out.args[1]][1]

\* C1 witness: a repeated call for one SSP after a call for another SSP.
C1_Witness ==
    /\ out.op = "generate_climate"
    /\ out.repeat
    /\ \E other \in SSPs \ {out.args[1]} : returned[other] # <<>>

\* C2: every record of generate_agricultural_scenarios has 0.5 <= yield <= 6.0.
C2_YieldClamped ==
    out.op = "generate_agricultural_scenarios"
        => \A i \in 1..Len(out.result) :
              out.result[i].yield >= 500 /\ out.result[i].yield <= 6000

\* C2 witness: one result holds a record clamped at 6.0, a record clamped at 0.5
\* and a record strictly between the two.
C2_Witness ==
    /\ out.op = "generate_agricultural_scenarios"
    /\ \E i, j, k \in 1..Len(out.result) :
          /\ out.result[i].yield = 6000
          /\ RawYield(out.result[i].temperature, out.result[i].precipitation,
                      tech_growth[out.args[1]], out.result[i].year) > 6000
          /\ out.result[j].yield = 500
          /\ RawYield(out.result[j].temperature, out.result[j].precipitation,
                      tech_growth[out.args[1]], out.result[j].year) < 500
          /\ out.result[k].yield > 500 /\ out.result[k].yield < 6000

\* no record of the call's input has its year inside the call's baseline window
NoYearInWindow ==
    \A i \in 1..Len(out.result) :
        out.result[i].year < out.args[2][1] \/ out.result[i].year > out.args[2][2]

\* C6: calculate_climate_anomalies on records none of whose years fall inside
\* the baseline window fails with EmptyBaseline; it never returns records whose
\* temp_anomaly or precip_anomaly is undefined.
C6_EmptyBaselineFails ==
    (out.op = "calculate_climate_anomalies" /\ NoYearInWindow)
        => /\ out.status = "EmptyBaseline"
           /\ \A i \in 1..Len(out.result) :
                 out.result[i].temp_anomaly # NaN /\ out.result[i].precip_anomaly # NaN

\* C7: a load_cmip6_data call interleaved with another session's call returns
\* the records it returns when it runs alone.
C7_Isolated ==
    \A s \in Sessions :
        pc[s] = "return"
            => \E o \in LoadCmip6Data(frame[s].ssp, rng, stream) : o.df = Returning(s)

\* the call was made with a baseline that the input does not hold
BaselineAbsent ==
    \A i \in 1..Len(scenarios_df) : scenarios_df[i].scenario # impacts.baseline

\* C3: calculate_impacts with a baseline identifier that does not occur in the
\* scenario column of its input fails with NoBaselineData instead of returning
\* a result.  (Stated for an input that has records: what an input without
\* records must do is the subject of C5.)
C3_NoBaselineFails ==
    (impacts.status # "none" /\ scenarios_df # <<>> /\ BaselineAbsent)
        => impacts.status = "NoBaselineData"

\* C5: calculate_impacts on an input without records, or with records of the
\* baseline scenario only, returns an empty result rather than raising.
C5_EmptySelectionNoError ==
    (/\ impacts.status # "none"
     /\ \A i \in 1..Len(scenarios_df) : scenarios_df[i].scenario = impacts.baseline)
        => impacts.status = "ok" /\ impacts.rows = <<>>

Tiers == {"Extreme", "High", "Medium", "Low", "Beneficial"}

\* C4: every summary row of assess_vulnerability carries one of the five tiers,
\* a mean below -100 being Extreme and a mean above 100 Beneficial.
C4_AlwaysClassified ==
    vulnerability.status = "ok"
        => \A i \in 1..Len(vulnerability.rows) :
              LET row == vulnerability.rows[i]
                  q == row.yield_impact_pct
              IN /\ row.vulnerability_level \in Tiers
                 /\ q.num < -10000 * q.den => row.vulnerability_level = "Extreme"
                 /\ q.num > 10000 * q.den => row.vulnerability_level = "Beneficial"

\* the yield_impact_pct values of the (region, scenario) group of the assessed
\* input, inside the assessed window
GroupPct(region, scenario) ==
    LET Member(r) == /\ r.region = region
                     /\ r.scenario = scenario
                     /\ r.year >= vulnerability.period[1]
                     /\ r.year <= vulnerability.period[2]
    IN Column(SelectSeq(impacts.rows, Member), "yield_impact_pct")

\* the tier of the summary row of a group ("none" without such a row)
LevelOf(region, scenario) ==
    IF \E i \in 1..Len(vulnerability.rows) :
          vulnerability.rows[i].region = region /\ vulnerability.rows[i].scenario = scenario
    THEN vulnerability.rows[
            CHOOSE i \in 1..Len(vulnerability.rows) :
               vulnerability.rows[i].region = region
               /\ vulnerability.rows[i].scenario = scenario].vulnerability_level
    ELSE "none"

\* C8: the mean m of yield_impact_pct of each (region, scenario) group is binned
\* left-open/right-closed: -100 < m <= -20 Extreme, -20 < m <= -10 High,
\* -10 < m <= -5 Medium, -5 < m <= 5 Low, 5 < m <= 100 Beneficial; so a mean
\* of exactly -20, -10, -5 or 5 is in the more severe tier, and -15, 0 and 50
\* are High, Low and Beneficial.
C8_Bins ==
    vulnerability.status = "ok"
        => \A region \in ImpactRegions, scenario \in SSPs :
              LET pct == GroupPct(region, scenario)
                  sum == SumSeq(pct)
                  n == Len(pct)
                  lvl == LevelOf(region, scenario)
              IN n > 0 =>
                 /\ (-10000 * n < sum /\ sum <= -2000 * n) => lvl = "Extreme"
                 /\ (-2000 * n < sum /\ sum <= -1000 * n) => lvl = "High"
                 /\ (-1000 * n < sum /\ sum <= -500 * n) => lvl = "Medium"
                 /\ (-500 * n < sum /\ sum <= 500 * n) => lvl = "Low"
                 /\ (500 * n < sum /\ sum <= 10000 * n) => lvl = "Beneficial"
                 /\ sum = -1500 * n => lvl = "High"
                 /\ sum = 0 => lvl = "Low"
                 /\ sum = 5000 * n => lvl = "Beneficial"

\* C8 witness: a group of two records (-10 and 0) whose mean is exactly -5 is
\* Medium.
C8_Witness ==
    /\ vulnerability.status = "ok"
    /\ GroupPct("West Africa", "SSP5-8.5") = <<-1000, 0>>
    /\ LevelOf("West Africa", "SSP5-8.5") = "Medium"

\* the input holds a record of scenario sc for the pair (year, region)
HasRecord(sc, year, region) ==
    \E i \in 1..Len(scenarios_df) :
        /\ scenarios_df[i].scenario = sc
        /\ scenarios_df[i].year = year
        /\ scenarios_df[i].region = region

\* the output holds a row of scenario sc for the pair (year, region)
HasRow(sc, year, region) ==
    \E i \in 1..Len(impacts.rows) :
        /\ impacts.rows[i].scenario = sc
        /\ impacts.rows[i].year = year
        /\ impacts.rows[i].region = region

\* C9: with baseline records in the input, the output holds a row of a
\* non-baseline scenario s for a (year, region) pair exactly when the pair
\* occurs in the records of s and in the baseline records; a pair missing from
\* the baseline is dropped and no error is raised.
C9_InnerJoin ==
    (impacts.status # "none" /\ ~BaselineAbsent)
        => \A sc \in RecordScenarios \ {impacts.baseline} :
              (\E i \in 1..Len(scenarios_df) : scenarios_df[i].scenario = sc)
                 => /\ impacts.status = "ok"
                    /\ \A p \in Pairs :
                          HasRow(sc, p[1], p[2])
                             <=> (HasRecord(sc, p[1], p[2])
                                  /\ HasRecord(impacts.baseline, p[1], p[2]))

\* C9 witness: a scenario with one pair that the baseline has and one that the
\* baseline lacks; the first is in the output and the second is not.
C9_Witness ==
    /\ impacts.status = "ok"
    /\ \E sc \in RecordScenarios \ {impacts.baseline}, p, q \in Pairs :
          /\ HasRecord(sc, p[1], p[2]) /\ HasRecord(impacts.baseline, p[1], p[2])
          /\ HasRecord(sc, q[1], q[2]) /\ ~HasRecord(impacts.baseline, q[1], q[2])
          /\ HasRow(sc, p[1], p[2]) /\ ~HasRow(sc, q[1], q[2])

\* C10: no row returned by calculate_impacts(records, b) has scenario b.
C10_NoBaselineRows ==
    impacts.status = "ok"
        => \A i \in 1..Len(impacts.rows) : impacts.rows[i].scenario # impacts.baseline

\* C10 witness: the default baseline, present in the input, and a result that
\* has rows.
C10_Witness ==
    /\ impacts.status = "ok"
    /\ impacts.baseline = "SSP2-4.5"
    /\ ~BaselineAbsent
    /\ impacts.rows # <<>>

\* the records load_cmip6_data returns for ssp, the seeded stream being known
LoadedAlone(ssp) == (CHOOSE o \in LoadCmip6Data(ssp, rng, stream) : TRUE).df

\* C11: every climate record load_cmip6_data produces, for every SSP, every
\* year and every noise draw, has precipitation >= 200 mm.
C11_PrecipitationFloor ==
    out.op \in {"generate_climate", "calculate_climate_anomalies"}
        => \A i \in 1..Len(out.result) : out.result[i].precipitation >= 20000

\* C11 witness: a record whose trend plus noise is below 200 mm and whose
\* precipitation is 200 mm, beside a record above 200 mm.
C11_Witness ==
    /\ out.op = "generate_climate"
    /\ \E i, j \in 1..Len(out.result) :
          /\ PrecipitationNoFloor(out.args[1],
                Normal(stream, Advance(Seed(rng), NumYears), precip_sd, NumYears))[i]
               < 20000
          /\ out.result[i].precipitation = 20000
          /\ out.result[j].precipitation > 20000

\* the climate records with anomalies that generate_agricultural_scenarios
\* starts from
ClimateOf(ssp) == CalculateClimateAnomalies(LoadedAlone(ssp), DefaultBaselinePeriod)

\* the rows of the latest result for one region and one year
RowsOf(region, year) ==
    {i \in 1..Len(out.result) :
        out.result[i].region = region /\ out.result[i].year = year}

\* C12: generate_agricultural_scenarios returns exactly one record per
\* (region, year) for the four regions and every generated year; the record is
\* the climate record of the year with temperature and precipitation
\* multiplied by the modifiers of its own region only (West 1.0/0.9, East
\* 0.8/0.7, Southern 1.2/0.6, Central 0.9/1.1), and with the anomalies of the
\* unmodified climate record.
C12_OwnModifiersOnly ==
    out.op = "generate_agricultural_scenarios"
        => LET climate == ClimateOf(out.args[1])
               Mod(region) ==
                   CASE region = "West Africa"     -> <<10, 9>>
                     [] region = "East Africa"     -> <<8, 7>>
                     [] region = "Southern Africa" -> <<12, 6>>
                     [] region = "Central Africa"  -> <<9, 11>>
           IN /\ Len(out.result) = 4 * NumYears
              /\ \A region \in {"West Africa", "East Africa",
                                "Southern Africa", "Central Africa"} :
                    \A y \in 1..NumYears :
                       /\ Cardinality(RowsOf(region, years[y])) = 1
                       /\ \A i \in RowsOf(region, years[y]) :
                             /\ out.result[i].temperature
                                  = (climate[y].temperature * Mod(region)[1]) \div 10
                             /\ out.result[i].precipitation
                                  = (climate[y].precipitation * Mod(region)[2]) \div 10
                             /\ out.result[i].temp_anomaly = climate[y].temp_anomaly
                             /\ out.result[i].precip_anomaly = climate[y].precip_anomaly
                             /\ out.result[i].scenario = out.args[1]
                             /\ out.result[i].crop_type = out.args[2]

\* C12 witness: a result whose record of the region processed last has its own
\* modifiers only, which differs from what the modifiers of all four regions
\* together would give, and a temperature anomaly that the modifier left alone.
C12_Witness ==
    /\ out.op = "generate_agricultural_scenarios"
    /\ \E i \in 1..Len(out.result) :
          LET climate == ClimateOf(out.args[1])
              y == CHOOSE n \in 1..NumYears : years[n] = out.result[i].year
          IN /\ out.result[i].region = "Central Africa"
             /\ out.result[i].temperature = (climate[y].temperature * 9) \div 10
             /\ out.result[i].temperature
                   # Compounded(climate[y].temperature, "temp_modifier", 4)
             /\ out.result[i].temp_anomaly = climate[y].temp_anomaly
             /\ out.result[i].temp_anomaly # 0

=============================================================================
